---- MODULE Spec2Model ----
(***************************************************************************)
(* Model of the CRM GraphQL mutations of crm/schema.py over the tables of  *)
(* crm/models.py.  The committed store is what any reader sees; a handler  *)
(* decorated with transaction.atomic keeps its writes in a pending buffer  *)
(* until it returns (commit) or raises (rollback).  Every handler          *)
(* statement that touches the store is one step, so that the handlers of   *)
(* concurrent requests interleave between statements.                      *)
(*                                                                         *)
(* Units: a price given to createProduct is a number of thousandths        *)
(* (mills); a stored price or total is a number of hundredths (cents),     *)
(* because the DecimalField columns keep two decimal places.               *)
(***************************************************************************)
EXTENDS Integers, Sequences, FiniteSets, TLC

VARIABLES customers, products, orders, order_products, pc, frame, tx, result

store == <<customers, products, orders, order_products>>
vars == <<customers, products, orders, order_products, pc, frame, tx, result>>

(* ------------------------------ bounds -------------------------------- *)
MaxProducts == 2
MaxOrders == 1
MaxBatch == 2
MaxBulkBatch == 2
MaxLongBatch == 5
MaxIds == 2
MaxDigits == 16

Clients == {"c1", "c2"}

(* ------------------------------ values -------------------------------- *)
\* Python None for a phone (a phone is a sequence of characters)
None == <<"None">>
\* Python None for a string-valued field
NoneStr == "None"

Range(s) == {s[i] : i \in 1..Len(s)}

DigitChars == {"0", "1", "2", "3", "4", "5", "6", "7", "8", "9"}

Digits(n) == [i \in 1..n |-> "1"]

Emails == {"a@x.io", "b@x.io"}
Names == {"Ann"}
ValidPhone == <<"+">> \o Digits(7)
BadPhone == <<"1", "2">>
PhoneSamples == {None, ValidPhone, BadPhone}

PriceInputs == {-1000, 0, 4, 120, 350}
StockInputs == {-1, 5}
DateInputs == {NoneStr, "2024-01-01"}

(* ---------------------------- validators ------------------------------ *)
\* `$` of the pattern: the end of the string, or just before a final newline
MatchEnd(s, i) == i = Len(s) + 1 \/ (i = Len(s) /\ s[i] = "\n")

\* \d{k} at position i
DigitRun(s, i, k) == i + k - 1 <= Len(s) /\ \A j \in i..(i + k - 1) : s[j] \in DigitChars

\* \+?\d{7,15}$
MatchIntl(s) ==
    \E plus \in {0, 1} : \E k \in 7..15 :
        /\ plus = 1 => (Len(s) >= 1 /\ s[1] = "+")
        /\ DigitRun(s, plus + 1, k)
        /\ MatchEnd(s, plus + 1 + k)

\* \d{3}-\d{3}-\d{4}$
MatchDashed(s) ==
    /\ DigitRun(s, 1, 3)
    /\ Len(s) >= 4 /\ s[4] = "-"
    /\ DigitRun(s, 5, 3)
    /\ Len(s) >= 8 /\ s[8] = "-"
    /\ DigitRun(s, 9, 4)
    /\ MatchEnd(s, 13)

PhonePattern(s) == MatchIntl(s) \/ MatchDashed(s)

InvalidPhoneMsg == "Invalid phone format. Use +1234567890 or 123-456-7890."

\* validate_phone: "ok", or the message of the ValidationError it raises
validate_phone(phone) ==
    IF phone # None /\ phone # <<>> /\ ~PhonePattern(phone)
    THEN InvalidPhoneMsg
    ELSE "ok"

\* validate_price_and_stock: "ok", or the message of the ValidationError
validate_price_and_stock(price, stock) ==
    IF price <= 0 THEN "Price must be positive."
    ELSE IF stock < 0 THEN "Stock cannot be negative."
    ELSE "ok"

\* str() of a django ValidationError built from one message: repr of the
\* one-element message list
StrValidationError(msg) == <<"['">> \o msg \o <<"']">>

\* Decimal(price) saved into a column of two decimal places: quantized to
\* hundredths (a tie goes to the even hundredth under the default decimal
\* context; the prices of the model are not ties)
Quantize(mills) ==
    LET q == mills \div 10
        r == mills % 10
    IN  IF r < 5 THEN q
        ELSE IF r > 5 THEN q + 1
        ELSE IF q % 2 = 0 THEN q ELSE q + 1

\* float(order.total_amount): a total has at most 12 significant digits, which
\* a double holds without loss, so the float denotes the same amount
Float(cents) == cents

RECURSIVE SumSet(_)
SumSet(S) ==
    IF S = {} THEN 0
    ELSE LET x == CHOOSE y \in S : TRUE
         IN  x + SumSet(S \ {x})

\* the sum of the distinct prices
SumDistinctPrices(ps) == SumSet({p.price : p \in ps})

RECURSIVE SumPrices(_)
\* sum(p.price for p in products)
SumPrices(ps) ==
    IF ps = {} THEN 0
    ELSE LET p == CHOOSE x \in ps : TRUE
         IN  p.price + SumPrices(ps \ {p})

(* ------------------------------- store -------------------------------- *)
EmptyTx == [customers |-> {}, orders |-> {}, order_products |-> {}]

EmptyFrame == [op |-> "none", input |-> <<>>, i |-> 0, created |-> <<>>,
               errors |-> <<>>, customer |-> 0, products |-> {}, order |-> 0]

NoResult == [kind |-> "none"]

Ids(rows) == {row.id : row \in rows}

\* an AutoField value: an id no row of the table holds, committed or pending
\* (the smallest one, which keeps the ids of the model bounded)
FreeId(used) == CHOOSE n \in 1..(Cardinality(used) + 1) :
                    n \notin used /\ \A m \in 1..(n - 1) : m \in used

PendingCustomers == UNION {tx[r].customers : r \in Clients}
PendingOrders == UNION {tx[r].orders : r \in Clients}

NextCustomerId == FreeId(Ids(customers \cup PendingCustomers))
NextOrderId == FreeId(Ids(orders \cup PendingOrders))
NextProductId == FreeId(Ids(products))

\* the customers a request reads: committed rows and its own pending rows
VisibleCustomers(r) == customers \cup tx[r].customers

EmailsOf(rows) == {row.email : row \in rows}

\* rows other requests have inserted and not yet committed
OthersPendingEmails(r) == UNION {EmailsOf(tx[q].customers) : q \in Clients \ {r}}

\* the products attached to an order in the committed store
ProductsOf(o) == {p \in products : <<o.id, p.id>> \in order_products}

Init ==
    /\ customers = {}
    /\ products = {}
    /\ orders = {}
    /\ order_products = {}
    /\ pc = [r \in Clients |-> "idle"]
    /\ frame = [r \in Clients |-> EmptyFrame]
    /\ tx = [r \in Clients |-> EmptyTx]
    /\ result = [r \in Clients |-> NoResult]

\* the request returns to its caller
Finish(r, res) ==
    /\ pc' = [pc EXCEPT ![r] = "done"]
    /\ result' = [result EXCEPT ![r] = res]

(* --------------------------- createCustomer --------------------------- *)
CustomerInputs == [name : Names, email : Emails, phone : PhoneSamples]

CreateCustomerCall(r, input) ==
    /\ pc[r] = "idle"
    /\ pc' = [pc EXCEPT ![r] = "cc_check"]
    /\ frame' = [frame EXCEPT ![r] = [EmptyFrame EXCEPT !.op = "createCustomer", !.input = input]]
    /\ UNCHANGED <<store, tx, result>>

\* validate_phone alone, without the exists() query
CreateCustomerCheckNoExists(r) ==
    LET input == frame[r].input IN
    /\ pc[r] = "cc_check"
    /\ IF validate_phone(input.phone) # "ok"
       THEN Finish(r, [kind |-> "soft", customer |-> NoneStr,
                       message |-> StrValidationError(<<validate_phone(input.phone)>>)])
       ELSE /\ pc' = [pc EXCEPT ![r] = "cc_create"]
            /\ UNCHANGED result
    /\ UNCHANGED <<store, frame, tx>>

\* the exists() query and validate_phone; a ValidationError becomes a message
CreateCustomerCheck(r) ==
    LET input == frame[r].input IN
    /\ pc[r] = "cc_check"
    /\ IF input.email \in EmailsOf(customers)
       THEN Finish(r, [kind |-> "soft", customer |-> NoneStr,
                       message |-> StrValidationError(<<"Email already exists.">>)])
       ELSE IF validate_phone(input.phone) # "ok"
       THEN Finish(r, [kind |-> "soft", customer |-> NoneStr,
                       message |-> StrValidationError(<<validate_phone(input.phone)>>)])
       ELSE /\ pc' = [pc EXCEPT ![r] = "cc_create"]
            /\ UNCHANGED result
    /\ UNCHANGED <<store, frame, tx>>

\* Customer.objects.create: the unique email column refuses a second row with
\* an IntegrityError, which the handler does not catch
CreateCustomerInsert(r) ==
    LET input == frame[r].input
        row == [id |-> NextCustomerId, name |-> input.name,
                email |-> input.email, phone |-> input.phone]
    IN
    /\ pc[r] = "cc_create"
    /\ input.email \notin OthersPendingEmails(r)
    /\ IF input.email \in EmailsOf(customers)
       THEN /\ Finish(r, [kind |-> "error", error |-> "IntegrityError"])
            /\ UNCHANGED customers
       ELSE /\ customers' = customers \cup {row}
            /\ Finish(r, [kind |-> "ok", customer |-> row,
                          message |-> <<"Customer created successfully.">>])
    /\ UNCHANGED <<products, orders, order_products, frame, tx>>

(* ---------------------------- createProduct --------------------------- *)
\* stock_kind: "absent" (the input's default value 0 applies), "null", "int"
ProductInputs == [name : {"Widget"}, price : PriceInputs,
                  stock_kind : {"int"}, stock : StockInputs]
                 \cup [name : {"Widget"}, price : PriceInputs,
                       stock_kind : {"absent", "null"}, stock : {0}]

CreateProduct(r, input) ==
    LET stock == input.stock
        check == validate_price_and_stock(input.price, stock)
        row == [id |-> NextProductId, name |-> input.name,
                price |-> Quantize(input.price), stock |-> stock]
    IN
    /\ pc[r] = "idle"
    /\ Cardinality(products) < MaxProducts
    /\ frame' = [frame EXCEPT ![r] = [EmptyFrame EXCEPT !.op = "createProduct", !.input = input]]
    /\ IF input.price > 0 /\ input.stock_kind = "null"
       THEN \* None < 0
            /\ Finish(r, [kind |-> "error", error |-> "TypeError"])
            /\ UNCHANGED products
       ELSE IF check # "ok"
       THEN /\ Finish(r, [kind |-> "error", error |-> "GraphQLError",
                          message |-> StrValidationError(<<check>>)])
            /\ UNCHANGED products
       ELSE /\ products' = products \cup {row}
            /\ Finish(r, [kind |-> "ok", product |-> row.id,
                          message |-> <<"Product created successfully.">>])
    /\ UNCHANGED <<customers, orders, order_products, tx>>

(* ------------------------- bulkCreateCustomers ------------------------ *)
\* batches of every kind of payload, and longer batches of payloads without a
\* phone over one more email
LongBatchPayloads == [name : Names, email : Emails \cup {"c@x.io"}, phone : {None}]
BulkBatchInputs ==
    UNION {[1..n -> CustomerInputs] : n \in 0..MaxBulkBatch}
    \cup UNION {[1..n -> LongBatchPayloads] : n \in 0..MaxLongBatch}

\* entering the atomic block
BulkCall(r, input) ==
    /\ pc[r] = "idle"
    /\ pc' = [pc EXCEPT ![r] = "bulk_check"]
    /\ frame' = [frame EXCEPT ![r] = [EmptyFrame EXCEPT !.op = "bulkCreateCustomers",
                                                         !.input = input, !.i = 1]]
    /\ UNCHANGED <<store, tx, result>>

\* the payload's ValidationError caught outside the loop: the batch ends
BulkCheckAborts(r) ==
    LET f == frame[r]
        data == f.input[f.i]
    IN
    /\ pc[r] = "bulk_check"
    /\ f.i <= Len(f.input)
    /\ IF data.email \in EmailsOf(VisibleCustomers(r)) \/ validate_phone(data.phone) # "ok"
       THEN /\ frame' = [frame EXCEPT ![r].errors = Append(@, <<"ValidationError">>),
                                      ![r].i = Len(f.input) + 1]
            /\ UNCHANGED pc
       ELSE /\ pc' = [pc EXCEPT ![r] = "bulk_create"]
            /\ UNCHANGED frame
    /\ UNCHANGED <<store, tx, result>>

\* one payload's exists() query and validate_phone; a ValidationError is
\* appended to errors and the loop goes on
BulkCheck(r) ==
    LET f == frame[r]
        data == f.input[f.i]
    IN
    /\ pc[r] = "bulk_check"
    /\ f.i <= Len(f.input)
    /\ IF data.email \in EmailsOf(VisibleCustomers(r))
       THEN frame' = [frame EXCEPT ![r].errors =
                          Append(@, StrValidationError(<<"Email already exists: ", data.email>>)),
                      ![r].i = @ + 1]
            /\ UNCHANGED pc
       ELSE IF validate_phone(data.phone) # "ok"
       THEN frame' = [frame EXCEPT ![r].errors =
                          Append(@, StrValidationError(<<validate_phone(data.phone)>>)),
                      ![r].i = @ + 1]
            /\ UNCHANGED pc
       ELSE /\ pc' = [pc EXCEPT ![r] = "bulk_create"]
            /\ UNCHANGED frame
    /\ UNCHANGED <<store, tx, result>>

\* Customer.objects.create inside the atomic block: the row is pending until
\* the block ends; an IntegrityError leaves the handler and rolls back
BulkInsert(r) ==
    LET f == frame[r]
        data == f.input[f.i]
        row == [id |-> NextCustomerId, name |-> data.name,
                email |-> data.email, phone |-> data.phone]
    IN
    /\ pc[r] = "bulk_create"
    /\ data.email \notin OthersPendingEmails(r)
    /\ IF data.email \in EmailsOf(VisibleCustomers(r))
       THEN /\ Finish(r, [kind |-> "error", error |-> "IntegrityError"])
            /\ tx' = [tx EXCEPT ![r] = EmptyTx]
            /\ UNCHANGED frame
       ELSE /\ tx' = [tx EXCEPT ![r].customers = @ \cup {row}]
            /\ frame' = [frame EXCEPT ![r].created = Append(@, row), ![r].i = @ + 1]
            /\ pc' = [pc EXCEPT ![r] = "bulk_check"]
            /\ UNCHANGED result
    /\ UNCHANGED store

\* the loop is over: the handler returns and the atomic block commits
BulkReturn(r) ==
    LET f == frame[r] IN
    /\ pc[r] = "bulk_check"
    /\ f.i > Len(f.input)
    /\ customers' = customers \cup tx[r].customers
    /\ tx' = [tx EXCEPT ![r] = EmptyTx]
    /\ Finish(r, [kind |-> "ok", customers |-> f.created, errors |-> f.errors])
    /\ UNCHANGED <<products, orders, order_products, frame>>

(* ----------------------------- createOrder ---------------------------- *)
\* ids of rows that exist or do not, depending on how many rows are stored
ProductIdLists == UNION {[1..n -> 1..MaxProducts] : n \in 0..MaxIds}

OrderInputs == [customer_id : 1..Cardinality(Emails),
                product_ids : ProductIdLists,
                order_date : DateInputs]

\* entering the atomic block
CreateOrderCall(r, input) ==
    /\ pc[r] = "idle"
    /\ Cardinality(orders \cup PendingOrders) < MaxOrders
    /\ pc' = [pc EXCEPT ![r] = "order_lookup"]
    /\ frame' = [frame EXCEPT ![r] = [EmptyFrame EXCEPT !.op = "createOrder", !.input = input]]
    /\ UNCHANGED <<store, tx, result>>

\* the order row written before the product ids are checked, outside any
\* transaction
CreateOrderLookupAfterCreate(r) ==
    LET input == frame[r].input
        found == {p \in products : p.id \in Range(input.product_ids)}
        row == [id |-> NextOrderId, customer |-> input.customer_id,
                order_date |-> "now", total_amount |-> 0]
    IN
    /\ pc[r] = "order_lookup"
    /\ IF input.customer_id \notin Ids(VisibleCustomers(r))
       THEN /\ Finish(r, [kind |-> "error", error |-> "GraphQLError",
                          message |-> <<"Customer with ID ", ToString(input.customer_id),
                                        " does not exist.">>])
            /\ UNCHANGED <<frame, orders>>
       ELSE IF Cardinality(found) # Len(input.product_ids)
       THEN /\ Finish(r, [kind |-> "error", error |-> "GraphQLError",
                          message |-> <<"One or more product IDs are invalid.">>])
            /\ orders' = orders \cup {row}
            /\ UNCHANGED frame
       ELSE /\ frame' = [frame EXCEPT ![r].customer = input.customer_id,
                                      ![r].products = found]
            /\ pc' = [pc EXCEPT ![r] = "order_create"]
            /\ UNCHANGED <<result, orders>>
    /\ UNCHANGED <<customers, products, order_products, tx>>

\* the resolved products compared with the number of distinct ids
CreateOrderLookupDistinct(r) ==
    LET input == frame[r].input
        found == {p \in products : p.id \in Range(input.product_ids)}
    IN
    /\ pc[r] = "order_lookup"
    /\ IF input.customer_id \notin Ids(VisibleCustomers(r))
       THEN /\ Finish(r, [kind |-> "error", error |-> "GraphQLError",
                          message |-> <<"Customer with ID ", ToString(input.customer_id),
                                        " does not exist.">>])
            /\ UNCHANGED frame
       ELSE IF Cardinality(found) # Cardinality(Range(input.product_ids))
       THEN /\ Finish(r, [kind |-> "error", error |-> "GraphQLError",
                          message |-> <<"One or more product IDs are invalid.">>])
            /\ UNCHANGED frame
       ELSE /\ frame' = [frame EXCEPT ![r].customer = input.customer_id,
                                      ![r].products = found]
            /\ pc' = [pc EXCEPT ![r] = "order_create"]
            /\ UNCHANGED result
    /\ UNCHANGED <<store, tx>>

\* Customer.objects.get, Product.objects.filter(id__in=...) and the length check
CreateOrderLookup(r) ==
    LET input == frame[r].input
        found == {p \in products : p.id \in Range(input.product_ids)}
    IN
    /\ pc[r] = "order_lookup"
    /\ IF input.customer_id \notin Ids(VisibleCustomers(r))
       THEN /\ Finish(r, [kind |-> "error", error |-> "GraphQLError",
                          message |-> <<"Customer with ID ", ToString(input.customer_id),
                                        " does not exist.">>])
            /\ UNCHANGED frame
       ELSE IF Cardinality(found) # Len(input.product_ids)
       THEN /\ Finish(r, [kind |-> "error", error |-> "GraphQLError",
                          message |-> <<"One or more product IDs are invalid.">>])
            /\ UNCHANGED frame
       ELSE /\ frame' = [frame EXCEPT ![r].customer = input.customer_id,
                                      ![r].products = found]
            /\ pc' = [pc EXCEPT ![r] = "order_create"]
            /\ UNCHANGED result
    /\ UNCHANGED <<store, tx>>

\* the insert committed at once, as it is outside an atomic block
CreateOrderInsertAutocommit(r) ==
    LET input == frame[r].input
        order_date == IF input.order_date # NoneStr THEN input.order_date ELSE "now"
        row == [id |-> NextOrderId, customer |-> frame[r].customer,
                order_date |-> order_date, total_amount |-> 0]
    IN
    /\ pc[r] = "order_create"
    /\ orders' = orders \cup {row}
    /\ frame' = [frame EXCEPT ![r].order = row.id]
    /\ pc' = [pc EXCEPT ![r] = "order_set"]
    /\ UNCHANGED <<customers, products, order_products, tx, result>>

\* Order.objects.create(customer=..., order_date=...): total_amount defaults to 0
CreateOrderInsert(r) ==
    LET input == frame[r].input
        order_date == IF input.order_date # NoneStr THEN input.order_date ELSE "now"
        row == [id |-> NextOrderId, customer |-> frame[r].customer,
                order_date |-> order_date, total_amount |-> 0]
    IN
    /\ pc[r] = "order_create"
    /\ tx' = [tx EXCEPT ![r].orders = @ \cup {row}]
    /\ frame' = [frame EXCEPT ![r].order = row.id]
    /\ pc' = [pc EXCEPT ![r] = "order_set"]
    /\ UNCHANGED <<store, result>>

\* order.products.set(products): the join rows of the order become exactly
\* the rows of the given products
CreateOrderSetProducts(r) ==
    LET oid == frame[r].order IN
    /\ pc[r] = "order_set"
    /\ tx' = [tx EXCEPT ![r].order_products =
                  {jr \in @ : jr[1] # oid} \cup {<<oid, p.id>> : p \in frame[r].products}]
    /\ pc' = [pc EXCEPT ![r] = "order_save"]
    /\ UNCHANGED <<store, frame, result>>

\* the products a request reads as attached to an order
VisibleProductsOf(r, oid) ==
    {p \in products : <<oid, p.id>> \in (order_products \cup tx[r].order_products)}

\* Order.save: an order that has a pk gets the sum of its attached products
OrderSave(r, o) ==
    IF o.id # 0
    THEN [o EXCEPT !.total_amount = SumPrices(VisibleProductsOf(r, o.id))]
    ELSE o

\* order.total_amount = sum(p.price for p in products); order.save()
CreateOrderSave(r) ==
    LET oid == frame[r].order
        o == CHOOSE x \in tx[r].orders \cup orders : x.id = oid
        assigned == [o EXCEPT !.total_amount = SumPrices(frame[r].products)]
        saved == OrderSave(r, assigned)
    IN
    /\ pc[r] = "order_save"
    /\ tx' = [tx EXCEPT ![r].orders = {x \in @ : x.id # oid} \cup {saved}]
    /\ pc' = [pc EXCEPT ![r] = "order_commit"]
    /\ UNCHANGED <<store, frame, result>>

\* the handler returns its payload and the atomic block commits
CreateOrderReturn(r) ==
    LET oid == frame[r].order
        o == CHOOSE x \in tx[r].orders \cup orders : x.id = oid
    IN
    /\ pc[r] = "order_commit"
    /\ orders' = {x \in orders : x.id \notin Ids(tx[r].orders)} \cup tx[r].orders
    /\ order_products' = order_products \cup tx[r].order_products
    /\ tx' = [tx EXCEPT ![r] = EmptyTx]
    /\ Finish(r, [kind |-> "ok",
                  order |-> [id |-> o.id, customer |-> o.customer,
                             products |-> frame[r].products,
                             total_amount |-> Float(o.total_amount),
                             order_date |-> o.order_date],
                  message |-> <<"Order created successfully.">>])
    /\ UNCHANGED <<customers, products, frame>>

\* the statements of an atomic block that write to the store
WritePcs == {"bulk_create", "order_create", "order_set", "order_save"}

\* a write inside an atomic block fails (lock timeout, deadlock victim, store
\* unreachable): the exception leaves the handler and the block rolls back
Fail(r) ==
    /\ pc[r] \in WritePcs
    /\ tx' = [tx EXCEPT ![r] = EmptyTx]
    /\ Finish(r, [kind |-> "error", error |-> "DatabaseError"])
    /\ UNCHANGED <<store, frame>>

\* the caller takes the response; the request's locals are gone
Return(r) ==
    /\ pc[r] = "done"
    /\ pc' = [pc EXCEPT ![r] = "idle"]
    /\ frame' = [frame EXCEPT ![r] = EmptyFrame]
    /\ result' = [result EXCEPT ![r] = NoResult]
    /\ UNCHANGED <<store, tx>>

(* --------------------------- validate_phone --------------------------- *)
\* phone strings around the two patterns: a digit run with or without a sign
\* before it and a character after it, and dashed groups of digits
PhoneInputs ==
    {None, <<>>}
    \cup {pre \o Digits(n) \o post :
            pre \in {<<>>, <<"+">>, <<"-">>, <<"+", "+">>},
            n \in 0..MaxDigits,
            post \in {<<>>, <<"\n">>, <<"x">>}}
    \cup {Digits(a) \o <<"-">> \o Digits(b) \o <<"-">> \o Digits(c) \o post :
            a \in 2..4, b \in 2..4, c \in 3..5, post \in {<<>>, <<"\n">>, <<"x">>}}

\* a call of validate_phone on its own
ValidatePhone(r, phone) ==
    /\ pc[r] = "idle"
    /\ frame' = [frame EXCEPT ![r] = [EmptyFrame EXCEPT !.op = "validate_phone", !.input = phone]]
    /\ Finish(r, IF validate_phone(phone) = "ok"
                 THEN [kind |-> "ok"]
                 ELSE [kind |-> "error", error |-> "ValidationError",
                       message |-> validate_phone(phone)])
    /\ UNCHANGED <<store, tx>>

(* --------------------------- specifications --------------------------- *)
SmallProductInputs == [name : {"Widget"}, price : {-1000, 120, 350},
                       stock_kind : {"absent"}, stock : {0}]

OrderCustomerInputs == [name : Names, email : Emails, phone : {None}]

\* one client: orders over the customers and products it has created
Next ==
    \E r \in {"c1"} :
        \/ \E input \in OrderCustomerInputs : CreateCustomerCall(r, input)
        \/ CreateCustomerCheck(r)
        \/ CreateCustomerInsert(r)
        \/ \E input \in SmallProductInputs : CreateProduct(r, input)
        \/ \E input \in OrderInputs : CreateOrderCall(r, input)
        \/ CreateOrderLookup(r)
        \/ CreateOrderInsert(r)
        \/ CreateOrderSetProducts(r)
        \/ CreateOrderSave(r)
        \/ CreateOrderReturn(r)
        \/ Fail(r)
        \/ Return(r)

Spec == Init /\ [][Next]_vars

\* createProduct over every kind of input
NextProduct ==
    \E r \in {"c1"} :
        \/ \E input \in ProductInputs : CreateProduct(r, input)
        \/ Return(r)

SpecProduct == Init /\ [][NextProduct]_vars

\* bulkCreateCustomers after createCustomer calls, one client
NextCustomers ==
    \E r \in {"c1"} :
        \/ \E input \in CustomerInputs : CreateCustomerCall(r, input)
        \/ CreateCustomerCheck(r)
        \/ CreateCustomerInsert(r)
        \/ \E input \in BulkBatchInputs : BulkCall(r, input)
        \/ BulkCheck(r)
        \/ BulkInsert(r)
        \/ BulkReturn(r)
        \/ Return(r)

SpecCustomers == Init /\ [][NextCustomers]_vars

\* validate_phone alone
NextPhone ==
    \E r \in {"c1"} :
        \/ \E phone \in PhoneInputs : ValidatePhone(r, phone)
        \/ Return(r)

SpecPhone == Init /\ [][NextPhone]_vars

ConcCustomerInputs == [name : Names, email : Emails, phone : {ValidPhone}]
ConcBatchInputs == [1..MaxBatch -> ConcCustomerInputs]
ConcProductInputs == [name : {"Widget"}, price : {350},
                      stock_kind : {"absent"}, stock : {0}]
ConcOrderInputs == [customer_id : {1}, product_ids : {<<1>>, <<1, 2>>},
                    order_date : {NoneStr}]

\* two clients whose handlers interleave between statements
NextConc ==
    \E r \in Clients :
        \/ \E input \in ConcCustomerInputs : CreateCustomerCall(r, input)
        \/ CreateCustomerCheck(r)
        \/ CreateCustomerInsert(r)
        \/ \E input \in ConcBatchInputs : BulkCall(r, input)
        \/ BulkCheck(r)
        \/ BulkInsert(r)
        \/ BulkReturn(r)
        \/ \E input \in ConcProductInputs : CreateProduct(r, input)
        \/ \E input \in ConcOrderInputs : CreateOrderCall(r, input)
        \/ CreateOrderLookup(r)
        \/ CreateOrderInsert(r)
        \/ CreateOrderSetProducts(r)
        \/ CreateOrderSave(r)
        \/ CreateOrderReturn(r)
        \/ Fail(r)
        \/ Return(r)

SpecConc == Init /\ [][NextConc]_vars

(* ------------------------------- claims ------------------------------- *)
PriceOfId(n) == IF n \in Ids(products) THEN (CHOOSE p \in products : p.id = n).price ELSE 0

RECURSIVE TotalOfIds(_, _)
\* the prices of the products whose id is in S, added up id by id from n down
TotalOfIds(S, n) ==
    IF n = 0 THEN 0
    ELSE (IF n \in S THEN PriceOfId(n) ELSE 0) + TotalOfIds(S, n - 1)

AttachedIds(oid) == {jr[2] : jr \in {x \in order_products : x[1] = oid}}

AttachedTotal(oid) == TotalOfIds(AttachedIds(oid), MaxProducts + 1)

Done(r, op) == pc[r] = "done" /\ frame[r].op = op

\* C1: every stored order's total_amount is the sum of the prices of the
\* products attached to it, and a successful createOrder returns that total
\* with the attached products.
C1_TotalIsSum ==
    /\ \A o \in orders : o.total_amount = AttachedTotal(o.id)
    /\ \A r \in Clients :
        (Done(r, "createOrder") /\ result[r].kind = "ok") =>
            /\ result[r].order.total_amount = TotalOfIds(Ids(result[r].order.products), MaxProducts + 1)
            /\ \E o \in orders :
                /\ o.id = result[r].order.id
                /\ o.total_amount = result[r].order.total_amount
                /\ ProductsOf(o) = result[r].order.products

C1_Witness ==
    \E r \in Clients :
        /\ Done(r, "createOrder") /\ result[r].kind = "ok"
        /\ Cardinality(result[r].order.products) = 2
        /\ \A p \in result[r].order.products : p.price = Quantize(350)
        /\ \E o \in orders : o.id = result[r].order.id /\ o.total_amount = 2 * Quantize(350)

\* C2: createOrder with an existing customer and an empty product-id list
\* ends in an error and no stored order has an empty product set.
C2_EmptyListRejected ==
    /\ \A r \in Clients :
        (/\ Done(r, "createOrder")
         /\ frame[r].input.product_ids = <<>>
         /\ frame[r].input.customer_id \in Ids(customers)) => result[r].kind = "error"
    /\ \A o \in orders : ProductsOf(o) # {}

ReferenceMissing(input) ==
    \/ input.customer_id \notin Ids(customers)
    \/ \E i \in 1..Len(input.product_ids) : input.product_ids[i] \notin Ids(products)

\* C3: a createOrder call whose customer id or one of whose product ids
\* references no stored row ends in a request-level error at the lookup, and a
\* call that ends in an error at the lookup has written nothing: the store is
\* unchanged and the call has no pending write.
C3_ReferenceFailureWritesNothing ==
    [][\A r \in Clients :
        (pc[r] = "order_lookup" /\ pc'[r] # "order_lookup") =>
            /\ ReferenceMissing(frame[r].input) =>
                (pc'[r] = "done" /\ result'[r].kind = "error" /\ result'[r].error = "GraphQLError")
            /\ (pc'[r] = "done" /\ result'[r].kind = "error") =>
                (store' = store /\ tx[r] = EmptyTx /\ tx'[r] = EmptyTx)]_vars

C3_Witness ==
    \E r \in Clients :
        /\ Done(r, "createOrder")
        /\ result[r].kind = "error" /\ result[r].error = "GraphQLError"
        /\ result[r].message = <<"One or more product IDs are invalid.">>
        /\ frame[r].input.customer_id \in Ids(customers)
        /\ \E i, j \in 1..Len(frame[r].input.product_ids) :
            /\ frame[r].input.product_ids[i] \in Ids(products)
            /\ frame[r].input.product_ids[j] \notin Ids(products)
        /\ orders = {}

UniqueEmails == \A c, d \in customers : c.email = d.email => c = d

\* C4: no two stored customers share an email, and a createCustomer call
\* whose email is the email of a stored customer ends at the check with a null
\* customer and the duplicate-email message, the customers unchanged.
C4_DuplicateEmailRefused ==
    /\ []UniqueEmails
    /\ [][\A r \in Clients :
            (/\ pc[r] = "cc_check" /\ pc'[r] # "cc_check"
             /\ frame[r].input.email \in EmailsOf(customers)) =>
                /\ pc'[r] = "done"
                /\ result'[r].kind = "soft"
                /\ result'[r].customer = NoneStr
                /\ "Email already exists." \in Range(result'[r].message)
                /\ customers' = customers]_vars

C4_Witness ==
    \E r \in Clients :
        /\ Done(r, "createCustomer")
        /\ result[r].kind = "soft"
        /\ "Email already exists." \in Range(result[r].message)
        /\ frame[r].input.email \in EmailsOf(customers)
        /\ frame[r].input.phone = ValidPhone

RECURSIVE Passes(_, _, _)
\* payload i of the batch passes: its email is not stored, no earlier passing
\* payload carries it, and its phone is accepted
Passes(batch, stored, i) ==
    /\ batch[i].email \notin stored
    /\ \A j \in 1..(i - 1) : ~(batch[j].email = batch[i].email /\ Passes(batch, stored, j))
    /\ validate_phone(batch[i].phone) = "ok"

RECURSIVE IndexSeq(_, _, _, _)
\* the indices up to n, in order, whose payload passes (or fails)
IndexSeq(batch, stored, n, pass) ==
    IF n = 0 THEN <<>>
    ELSE IF Passes(batch, stored, n) = pass
         THEN Append(IndexSeq(batch, stored, n - 1, pass), n)
         ELSE IndexSeq(batch, stored, n - 1, pass)

Payload(row) == [name |-> row.name, email |-> row.email, phone |-> row.phone]

\* C5: bulkCreateCustomers always returns; its created list holds exactly
\* the passing payloads in input order, its error list one message per failing
\* payload in input order, the lengths add up to the number of payloads, and
\* the store gains exactly the created customers.
C5_BulkSkipsFailures ==
    [][\A r \in Clients :
        (pc[r] \in {"bulk_check", "bulk_create"} /\ pc'[r] = "done") =>
            LET batch == frame[r].input
                stored == EmailsOf(customers)
                good == IndexSeq(batch, stored, Len(batch), TRUE)
                bad == IndexSeq(batch, stored, Len(batch), FALSE)
                res == result'[r]
            IN  /\ res.kind = "ok"
                /\ Len(res.customers) = Len(good)
                /\ \A k \in 1..Len(good) : Payload(res.customers[k]) = batch[good[k]]
                /\ Len(res.errors) = Len(bad)
                /\ \A k \in 1..Len(bad) :
                    IF validate_phone(batch[bad[k]].phone) = "ok"
                       \/ batch[bad[k]].email \in stored
                       \/ \E j \in 1..(bad[k] - 1) : batch[j].email = batch[bad[k]].email
                                                    /\ Passes(batch, stored, j)
                    THEN /\ "Email already exists: " \in Range(res.errors[k])
                         /\ batch[bad[k]].email \in Range(res.errors[k])
                    ELSE InvalidPhoneMsg \in Range(res.errors[k])
                /\ Len(res.customers) + Len(res.errors) = Len(batch)
                /\ customers' = customers \cup Range(res.customers)
                /\ Cardinality(customers') = Cardinality(customers) + Len(res.customers)]_vars

C5_Witness ==
    \E r \in Clients :
        /\ Done(r, "bulkCreateCustomers")
        /\ result[r].kind = "ok"
        /\ Len(frame[r].input) = 5
        /\ Len(result[r].customers) = 3
        /\ Len(result[r].errors) = 2
        /\ \A k \in 1..2 : "Email already exists: " \in Range(result[r].errors[k])
        /\ Cardinality(customers) = 3

OrderTxPcs == {"order_lookup", "order_create", "order_set", "order_save", "order_commit"}
BulkTxPcs == {"bulk_check", "bulk_create"}

C6_Inv ==
    /\ \A o \in orders : o.total_amount = AttachedTotal(o.id)
    /\ \A r \in Clients :
        /\ (pc[r] \in OrderTxPcs /\ frame[r].order # 0) =>
            (frame[r].order \notin Ids(orders) /\ AttachedIds(frame[r].order) = {})
        /\ pc[r] \in BulkTxPcs => Range(frame[r].created) \cap customers = {}

C6_Step ==
    \A r \in Clients :
        /\ (pc[r] = "order_commit" /\ pc'[r] = "done" /\ result'[r].kind = "ok") =>
            \E o \in orders' :
                /\ o.id = frame[r].order
                /\ {p \in products' : <<o.id, p.id>> \in order_products'} = frame[r].products
        /\ (pc[r] \in BulkTxPcs /\ pc'[r] = "done" /\ result'[r].kind = "ok") =>
            customers' = customers \cup Range(frame[r].created)
        /\ (pc[r] \in OrderTxPcs \cup BulkTxPcs /\ pc'[r] = "done" /\ result'[r].kind = "error") =>
            store' = store
        /\ (/\ pc[r] \in OrderTxPcs \cup BulkTxPcs /\ pc'[r] \in OrderTxPcs \cup BulkTxPcs
            /\ <<pc[r], frame[r], tx[r]>> # <<pc'[r], frame'[r], tx'[r]>>) =>
            store' = store

\* C6: the writes of a createOrder or bulkCreateCustomers call become
\* visible all at once when it returns, or never: no committed order is seen
\* without its products or with a total that is not their sum, no row of a
\* call in progress is visible, and a call that fails leaves the store as it was.
C6_TransactionsAtomic == []C6_Inv /\ [][C6_Step]_vars

C6_Witness ==
    \E r, q \in Clients :
        /\ r # q
        /\ pc[r] = "order_save" /\ tx[r].orders # {} /\ tx[r].order_products # {}
        /\ pc[q] = "bulk_create" /\ Cardinality(tx[q].customers) = 1

\* C7: every stored product has price > 0 and stock >= 0; a createProduct
\* call with price <= 0 or stock < 0 ends in a request-level error carrying the
\* validator's message, and a call with absent stock stores stock 0.
C7_StoredProductsValid ==
    /\ \A p \in products : p.price > 0 /\ p.stock >= 0
    /\ \A r \in Clients :
        Done(r, "createProduct") =>
            LET input == frame[r].input IN
            /\ input.price <= 0 =>
                (/\ result[r].kind = "error" /\ result[r].error = "GraphQLError"
                 /\ "Price must be positive." \in Range(result[r].message))
            /\ (input.price > 0 /\ input.stock_kind = "int" /\ input.stock < 0) =>
                (/\ result[r].kind = "error" /\ result[r].error = "GraphQLError"
                 /\ "Stock cannot be negative." \in Range(result[r].message))
            /\ (input.stock_kind = "absent" /\ result[r].kind = "ok") =>
                \E p \in products : p.id = result[r].product /\ p.stock = 0

\* '+' followed by 7 to 15 digits
ClaimedIntl(s) ==
    /\ Len(s) \in 8..16
    /\ s[1] = "+"
    /\ \A i \in 2..Len(s) : s[i] \in DigitChars

\* NNN-NNN-NNNN
ClaimedDashed(s) ==
    /\ Len(s) = 12
    /\ \A i \in 1..12 : IF i \in {4, 8} THEN s[i] = "-" ELSE s[i] \in DigitChars

\* C8: validate_phone accepts None, the empty string, '+' followed by 7 to
\* 15 digits and NNN-NNN-NNNN, and rejects every other string.
C8_PhoneValidator ==
    \A r \in Clients :
        Done(r, "validate_phone") =>
            LET s == frame[r].input IN
            (result[r].kind = "ok") <=>
                (s = None \/ s = <<>> \/ ClaimedIntl(s) \/ ClaimedDashed(s))

\* C9: every createCustomer call ends with a created customer or with a
\* null customer and a message, never with a request-level error.
C9_NoUncaughtFault ==
    \A r \in Clients :
        Done(r, "createCustomer") => result[r].kind \in {"ok", "soft"}

RepeatsExistingIds(input) ==
    /\ input.customer_id \in Ids(customers)
    /\ \A i \in 1..Len(input.product_ids) : input.product_ids[i] \in Ids(products)
    /\ \E i, j \in 1..Len(input.product_ids) :
        i # j /\ input.product_ids[i] = input.product_ids[j]

\* C10: a createOrder call of an existing customer whose product-id list
\* repeats an id, every id referencing a stored product, is rejected at the
\* lookup with 'One or more product IDs are invalid.' and writes no order.
C10_RepeatedIdRejected ==
    [][\A r \in Clients :
        (/\ pc[r] = "order_lookup" /\ pc'[r] # "order_lookup"
         /\ RepeatsExistingIds(frame[r].input)) =>
            /\ pc'[r] = "done"
            /\ result'[r] = [kind |-> "error", error |-> "GraphQLError",
                             message |-> <<"One or more product IDs are invalid.">>]
            /\ store' = store
            /\ tx'[r] = EmptyTx]_vars

C10_Witness ==
    \E r \in Clients :
        /\ Done(r, "createOrder")
        /\ RepeatsExistingIds(frame[r].input)
        /\ result[r].kind = "error" /\ result[r].error = "GraphQLError"
        /\ result[r].message = <<"One or more product IDs are invalid.">>
        /\ orders = {}
====
